---- MODULE Spec2Model ----
(***************************************************************************)
(* Model of the chat proxy of src/main.py: the POST /chat handler `chat`,  *)
(* the ChatRequest / ChatResponse schemas that guard it, and the upstream  *)
(* HTTP call it makes.                                                     *)
(*                                                                         *)
(* Conventions                                                             *)
(*  - a Python str is a sequence of one-character strings;                 *)
(*  - an Optional[str] is a set: {} is None, {s} is the string s;          *)
(*  - a JSON value is a record [t, v]: t is the JSON type, v the value;    *)
(*    a JSON object's v is a function from its keys to JSON values;        *)
(*  - a float is an integer number of tenths (0.7 is 7, 2 is 20).          *)
(***************************************************************************)
EXTENDS Integers, Sequences, FiniteSets, TLC

VARIABLES
    env,               \* os.environ["OPENROUTER_API_KEY"], an Optional[str]
    body,              \* the JSON body of the inbound POST /chat
    x_openrouter_key,  \* the x-openrouter-key header, an Optional[str]
    authorization,     \* the Authorization header, an Optional[str]
    req,               \* the validated ChatRequest
    bearer_key,        \* local of chat (lines 57-59)
    api_key,           \* local of chat (lines 61-66)
    headers,           \* local of chat (lines 78-84)
    payload,           \* local of chat (lines 86-94)
    sent,              \* the outbound calls of this execution, in order
    r,                 \* what requests.post gave: a response or an exception
    outcome,           \* what the caller of POST /chat receives
    pc                 \* the position of the request in the handler

vars == <<env, body, x_openrouter_key, authorization, req, bearer_key, api_key,
          headers, payload, sent, r, outcome, pc>>

-----------------------------------------------------------------------------
(* Bounds of the model *)

\* longest messages list of a request
MaxMsgs == 2
\* most whitespace characters on either side of the Authorization token
MaxPad == 1

-----------------------------------------------------------------------------
(* Python values *)

None == {}
Some(s) == {s}
Val(o) == CHOOSE s \in o : TRUE

\* bool(o) of an Optional[str]: None and "" are falsy
Truthy(o) == o # None /\ o # Some(<<>>)

\* a or b
Or(a, b) == IF Truthy(a) THEN a ELSE b

SeqsUpTo(S, n) == UNION {[1..k -> S] : k \in 0..n}

JNull == [t |-> "null", v |-> <<>>]
JBool(b) == [t |-> "bool", v |-> b]
JNum(n) == [t |-> "num", v |-> n]
JStr(s) == [t |-> "str", v |-> s]
JArr(a) == [t |-> "arr", v |-> a]
JObj(f) == [t |-> "obj", v |-> f]
\* the empty dict
NoKeys == <<>>

\* what an expression that raised evaluates to
Raised == [t |-> "raised", v |-> <<>>]

\* str.lower, on the letters the model draws
Lower(s) ==
    [i \in 1..Len(s) |->
        CASE s[i] = "B" -> "b"
          [] s[i] = "E" -> "e"
          [] s[i] = "A" -> "a"
          [] s[i] = "R" -> "r"
          [] s[i] = "S" -> "s"
          [] s[i] = "I" -> "i"
          [] s[i] = "C" -> "c"
          [] OTHER -> s[i]]

\* s.startswith(p)
StartsWith(s, p) == Len(s) >= Len(p) /\ SubSeq(s, 1, Len(p)) = p

\* what str.strip() removes
Whitespace == {" ", "\t", "\n"}

RECURSIVE LStrip(_)
LStrip(s) ==
    IF s # <<>> /\ Head(s) \in Whitespace THEN LStrip(Tail(s)) ELSE s

RECURSIVE RStrip(_)
RStrip(s) ==
    IF s # <<>> /\ s[Len(s)] \in Whitespace
    THEN RStrip(SubSeq(s, 1, Len(s) - 1))
    ELSE s

\* s.strip()
Strip(s) == RStrip(LStrip(s))

\* s.split(" ", 1)[1]: everything after the first space; s holds a space
AfterFirstSpace(s) ==
    LET i == CHOOSE k \in 1..Len(s) :
                 s[k] = " " /\ \A j \in 1..(k - 1) : s[j] # " "
    IN SubSeq(s, i + 1, Len(s))

\* x[k] of a JSON value x and a str key k; Raised when Python raises
Item(x, k) ==
    IF x.t = "obj" /\ k \in DOMAIN x.v THEN x.v[k] ELSE Raised

\* x[0] of a JSON value x; Raised when Python raises
First(x) ==
    IF x.t \in {"arr", "str"} /\ Len(x.v) > 0
    THEN (IF x.t = "arr" THEN x.v[1] ELSE JStr(<<x.v[1]>>))
    ELSE Raised

\* x.strip() of a JSON value x; Raised when x is no str
StripOf(x) == IF x.t = "str" THEN JStr(Strip(x.v)) ELSE Raised

-----------------------------------------------------------------------------
(* The schemas: Message, ChatRequest, ChatResponse *)

\* ChatRequest.model's default
DefaultModel == <<"openai/gpt-4o-mini">>
\* ChatRequest.temperature's default, 0.7
DefaultTemperature == 7
\* ChatRequest.top_p's default, 1.0
DefaultTopP == 10
\* ge and le of ChatRequest.temperature: 0 and 2
TemperatureGe == 0
TemperatureLe == 20
\* ge and le of ChatRequest.top_p: 0 and 1
TopPGe == 0
TopPLe == 10

\* a raw list item validates as a Message: role and content, both str
MessageOK(m) ==
    /\ m.t = "obj"
    /\ \A k \in {"role", "content"} : k \in DOMAIN m.v /\ m.v[k].t = "str"

\* messages: List[Message], required
MessagesOK(b) ==
    /\ "messages" \in DOMAIN b
    /\ b["messages"].t = "arr"
    /\ \A i \in 1..Len(b["messages"].v) : MessageOK(b["messages"].v[i])

\* model: str, with a default
ModelOK(b) == "model" \in DOMAIN b => b["model"].t = "str"

\* Mutant of OptionalFloatOK: the upper limit is not enforced
OptionalFloatOKNoLe(b, k, lo, hi) ==
    k \in DOMAIN b =>
        \/ b[k].t = "null"
        \/ b[k].t = "num" /\ lo <= b[k].v

\* Optional[float] = Field(default=..., ge=lo, le=hi): absent, null, or a
\* number within the limits
OptionalFloatOK(b, k, lo, hi) ==
    k \in DOMAIN b =>
        \/ b[k].t = "null"
        \/ b[k].t = "num" /\ lo <= b[k].v /\ b[k].v <= hi

\* api_key: Optional[str]
ApiKeyOK(b) == "api_key" \in DOMAIN b => b["api_key"].t \in {"null", "str"}

\* extra: Optional[Dict[str, Any]]
ExtraOK(b) == "extra" \in DOMAIN b => b["extra"].t \in {"null", "obj"}

\* the body validates as a ChatRequest
Valid(b) ==
    /\ MessagesOK(b)
    /\ ModelOK(b)
    /\ OptionalFloatOK(b, "temperature", TemperatureGe, TemperatureLe)
    /\ OptionalFloatOK(b, "top_p", TopPGe, TopPLe)
    /\ ApiKeyOK(b)
    /\ ExtraOK(b)

\* a Message keeps role and content, and no other field of the raw item
ParseMessage(m) == [role |-> m.v["role"].v, content |-> m.v["content"].v]

\* the ChatRequest of a valid body: defaults for the fields left out
ParseRequest(b) ==
    [messages    |-> [i \in 1..Len(b["messages"].v) |->
                         ParseMessage(b["messages"].v[i])],
     model       |-> IF "model" \in DOMAIN b THEN b["model"].v ELSE DefaultModel,
     temperature |-> IF "temperature" \in DOMAIN b THEN b["temperature"]
                     ELSE JNum(DefaultTemperature),
     top_p       |-> IF "top_p" \in DOMAIN b THEN b["top_p"] ELSE JNum(DefaultTopP),
     api_key     |-> IF "api_key" \in DOMAIN b /\ b["api_key"].t = "str"
                     THEN Some(b["api_key"].v) ELSE None,
     extra       |-> IF "extra" \in DOMAIN b THEN b["extra"] ELSE JNull]

\* ChatResponse(reply=reply, model=model) validates: both are str
ChatResponseOK(reply, model) == reply.t = "str" /\ model.t = "str"

-----------------------------------------------------------------------------
(* chat: the pure steps *)

\* "bearer " and "Bearer "
bearer_ == <<"b", "e", "a", "r", "e", "r", " ">>
Bearer_ == <<"B", "e", "a", "r", "e", "r", " ">>

\* Mutant of BearerKey: the scheme is compared case-sensitively
BearerKeyCaseSensitive(auth) ==
    IF Truthy(auth) /\ StartsWith(Val(auth), Bearer_)
    THEN Some(Strip(AfterFirstSpace(Val(auth))))
    ELSE None

\* lines 57-59
BearerKey(auth) ==
    IF Truthy(auth) /\ StartsWith(Lower(Val(auth)), bearer_)
    THEN Some(Strip(AfterFirstSpace(Val(auth))))
    ELSE None

\* Mutant of ResolveKey: the custom header is consulted before the environment
ResolveKeyHeaderFirst(body_key, env_key, header_key, bearer) ==
    Or(Or(Or(body_key, header_key), env_key), bearer)

\* lines 61-66: req.api_key or os.getenv(...) or x_openrouter_key or bearer_key
ResolveKey(body_key, env_key, header_key, bearer) ==
    Or(Or(Or(body_key, env_key), header_key), bearer)

\* Mutant of KeyMissing: only None counts as missing
KeyMissingIsNone(key) == key = None

\* line 68: not api_key
KeyMissing(key) == ~Truthy(key)

\* lines 78-84, with APP_URL and APP_NAME unset
BuildHeaders(key) ==
    "Authorization" :> (Bearer_ \o Val(key))
    @@ "Content-Type" :> <<"application/json">>
    @@ "HTTP-Referer" :> <<"http://localhost:3000">>
    @@ "X-Title" :> <<"Vibe Chatbot">>

\* m.dict()
MessageDict(m) == JObj([role |-> JStr(m.role), content |-> JStr(m.content)])

\* lines 86-91
BuiltIn(rq) ==
    [model       |-> JStr(rq.model),
     messages    |-> JArr([i \in 1..Len(rq.messages) |-> MessageDict(rq.messages[i])]),
     temperature |-> rq.temperature,
     top_p       |-> rq.top_p]

\* Mutant of BuildPayload: the built-in fields win over extra
BuildPayloadBuiltInWins(rq) ==
    IF rq.extra.t = "obj" /\ DOMAIN rq.extra.v # {}
    THEN BuiltIn(rq) @@ rq.extra.v
    ELSE BuiltIn(rq)

\* lines 93-94: payload.update(req.extra) when extra is a non-empty dict
BuildPayload(rq) ==
    IF rq.extra.t = "obj" /\ DOMAIN rq.extra.v # {}
    THEN rq.extra.v @@ BuiltIn(rq)
    ELSE BuiltIn(rq)

\* r.json(): the body parsed, Raised when it is no JSON
RJson(resp) == IF resp.body.t = "text" THEN Raised ELSE resp.body

\* lines 102-105
ErrorData(resp) ==
    IF RJson(resp) = Raised
    THEN JObj([error |-> JStr(resp.body.v)])
    ELSE RJson(resp)

\* Mutant of IsErrorStatus: 400 itself is let through
IsErrorStatusAbove400(status_code) == status_code > 400

\* line 101
IsErrorStatus(status_code) == status_code >= 400

\* line 111: data["choices"][0]["message"]["content"].strip()
ExtractReply(data) ==
    StripOf(Item(Item(First(Item(data, "choices")), "message"), "content"))

\* line 112: data.get("model", req.model)
UsedModel(data, rq) ==
    IF "model" \in DOMAIN data.v THEN data.v["model"] ELSE JStr(rq.model)

-----------------------------------------------------------------------------
(* What the caller receives *)

NoOutcome == [type |-> "none", status_code |-> 0, detail |-> JNull, line |-> 0]

\* FastAPI's answer to a body that does not validate, before chat is called
RequestValidationError ==
    [type |-> "RequestValidationError", status_code |-> 422,
     detail |-> JStr(<<"validation error">>), line |-> 52]

\* raise HTTPException(status_code=..., detail=...) at a line of chat
HTTPException(status_code, detail, line) ==
    [type |-> "HTTPException", status_code |-> status_code,
     detail |-> detail, line |-> line]

\* an exception chat does not catch: the server's plain-text 500
Unhandled(type, line) ==
    [type |-> type, status_code |-> 500,
     detail |-> JStr(<<"Internal Server Error">>), line |-> line]

\* return ChatResponse(reply=..., model=...)
ChatResponse(reply, model) ==
    [type |-> "ChatResponse", status_code |-> 200,
     detail |-> JObj([reply |-> reply, model |-> model]), line |-> 116]

\* lines 71-74
MissingKeyDetail ==
    JStr(<<"OpenRouter API key not provided. Add 'api_key' in JSON body, or set 'OPENROUTER_API_KEY' env var, or send header 'x-openrouter-key: <key>' or 'Authorization: Bearer <key>'.">>)

\* line 99: f"Upstream request failed: {e}"
UnreachableDetail(e) == JStr(<<"Upstream request failed: ">> \o e)

\* line 114
UnexpectedFormatDetail == JStr(<<"Unexpected response format from OpenRouter">>)

\* lines 108-116: the answer to an upstream response that passed line 101
Translate(resp, rq) ==
    IF RJson(resp) = Raised
    THEN Unhandled("JSONDecodeError", 108)
    ELSE IF ExtractReply(RJson(resp)) = Raised
    THEN HTTPException(500, UnexpectedFormatDetail, 114)
    ELSE IF ~ChatResponseOK(ExtractReply(RJson(resp)), UsedModel(RJson(resp), rq))
    THEN Unhandled("ValidationError", 116)
    ELSE ChatResponse(ExtractReply(RJson(resp)), UsedModel(RJson(resp), rq))

-----------------------------------------------------------------------------
(* The inputs: inbound requests, the environment, upstream behaviours *)

KeyBody == <<"k", "b">>
KeyEnv == <<"k", "e">>
KeyHeader == <<"k", "h">>
KeyToken == <<"k", "t">>

MsgUser == JObj([role |-> JStr(<<"user">>), content |-> JStr(<<"h", "i">>)])
MsgNamed ==
    JObj([role |-> JStr(<<"assistant">>), content |-> JStr(<<"o", "k">>),
          name |-> JStr(<<"bot">>)])
MsgNoContent == JObj([role |-> JStr(<<"user">>)])

BaseBody == [messages |-> JArr(<<MsgUser>>)]

\* b, and b with field k set to each of vals
With(b, k, vals) == {b} \cup {(k :> v) @@ b : v \in vals}

EnvValues == {None, Some(<<>>), Some(KeyEnv)}

Pads == {[i \in 1..n |-> " "] : n \in 0..MaxPad} \cup {<<"\t">>}

AuthValues ==
    {None, Some(<<>>)} \cup
    {Some(scheme \o sep \o left \o token \o right) :
        scheme \in {<<"B", "e", "a", "r", "e", "r">>,
                    <<"b", "E", "A", "R", "E", "R">>,
                    <<"B", "a", "s", "i", "c">>,
                    <<"B", "e", "a", "r">>},
        sep \in {<<>>, <<" ">>},
        left \in Pads,
        token \in {<<>>, KeyToken, <<"k", " ", "t">>},
        right \in Pads}

\* every combination of the four key sources being absent, empty or set
PrecedenceRequests ==
    [body : With(BaseBody, "api_key", {JNull, JStr(<<>>), JStr(KeyBody)}),
     x_openrouter_key : {None, Some(<<>>), Some(KeyHeader)},
     authorization : {None, Some(<<>>), Some(Bearer_ \o KeyToken),
                      Some(Bearer_), Some(<<"B", "a", "s", "i", "c", " ">> \o KeyToken)}]

\* the shapes of the Authorization header, with no key in body or header
BearerRequests ==
    [body : {BaseBody}, x_openrouter_key : {None}, authorization : AuthValues]

TemperatureValues ==
    {JNull, JStr(<<"hot">>), JNum(TemperatureGe - 1), JNum(TemperatureGe),
     JNum(DefaultTemperature), JNum(TemperatureLe), JNum(TemperatureLe + 1)}

TopPValues ==
    {JNull, JStr(<<"all">>), JNum(TopPGe - 1), JNum(TopPGe), JNum(TopPLe),
     JNum(TopPLe + 1)}

\* bodies that break, or just keep, each constraint of ChatRequest
ValidationBodies ==
    UNION {With(b, "top_p", TopPValues) :
              b \in With(BaseBody, "temperature", TemperatureValues)}
    \cup {[model |-> JStr(<<"m-req">>)],
          [messages |-> JStr(<<"h", "i">>)],
          [messages |-> JArr(<<MsgNoContent>>)],
          [messages |-> JArr(<<MsgUser, MsgNoContent>>)]}
    \cup With(BaseBody, "model", {JNull, JNum(4)})
    \cup With(BaseBody, "extra", {JArr(<<>>), JStr(<<"x">>)})
    \cup With(BaseBody, "api_key", {JNum(1)})

ValidationRequests ==
    [body : ValidationBodies, x_openrouter_key : {None, Some(KeyHeader)},
     authorization : {None}]

ExtraValues ==
    {JNull,
     JObj(NoKeys),
     JObj([stream |-> JBool(FALSE)]),
     JObj([model |-> JStr(<<"m-extra">>)]),
     JObj([temperature |-> JNum(99), stream |-> JBool(TRUE)]),
     JObj([messages |-> JArr(<<>>), top_p |-> JNull])}

\* bodies that vary what goes into the outbound payload
PayloadBodies ==
    UNION {UNION {With(b2, "model", {JStr(<<"m-req">>)}) :
                     b2 \in With([messages |-> JArr(m)], "extra", ExtraValues)} :
              m \in SeqsUpTo({MsgUser, MsgNamed}, MaxMsgs)}

PayloadRequests ==
    [body : PayloadBodies, x_openrouter_key : {Some(KeyHeader)},
     authorization : {None}]

Requests ==
    PrecedenceRequests \cup BearerRequests \cup ValidationRequests
    \cup PayloadRequests

\* a chat completion whose message content and top-level fields are given
Completion(content, top) ==
    JObj(top @@ [choices |-> JArr(<<JObj([message |-> JObj(content)])>>)])

UpstreamBodies ==
    {[t |-> "text", v |-> <<"<", "h", "1", ">">>],
     JNull,
     JStr(<<"choices">>),
     JArr(<<JObj([message |-> JObj([content |-> JStr(<<"h", "i">>)])])>>),
     JObj(NoKeys),
     JObj([error |-> JStr(<<"rate limited">>)]),
     JObj([choices |-> JArr(<<>>)]),
     JObj([choices |-> JStr(<<"a", "b">>)]),
     JObj([choices |-> JObj([message |-> JObj([content |-> JStr(<<"h", "i">>)])])]),
     JObj([choices |-> JArr(<<JObj(NoKeys)>>)]),
     JObj([choices |-> JArr(<<JObj([message |-> JStr(<<"content">>)])>>)]),
     Completion(NoKeys, NoKeys),
     Completion([content |-> JNull], NoKeys),
     Completion([content |-> JNum(5)], [model |-> JStr(<<"m-up">>)]),
     Completion([content |-> JStr(<<"h", "i">>)], NoKeys),
     Completion([content |-> JStr(<<" ", "h", " ", "i", "\n">>)], [model |-> JStr(<<"m-up">>)]),
     Completion([content |-> JStr(<<"\t", " ">>)], [model |-> JStr(<<"m-up">>)]),
     Completion([content |-> JStr(<<"h", "i", " ">>)], [model |-> JNull])}

UpstreamStatuses == {200, 399, 400, 429}

\* what requests.post can do: answer, or raise a RequestException
UpstreamResults ==
    [kind : {"response"}, status_code : UpstreamStatuses, body : UpstreamBodies]
    \cup [kind : {"exception"}, status_code : {0},
          body : {[t |-> "text", v |-> <<"ConnectionError">>],
                  [t |-> "text", v |-> <<"ReadTimeout">>]}]

NoRequest == [messages |-> <<>>, model |-> <<>>, temperature |-> JNull,
              top_p |-> JNull, api_key |-> None, extra |-> JNull]
NoResult == [kind |-> "none", status_code |-> 0, body |-> JNull]

-----------------------------------------------------------------------------
(* The handler, step by step *)

Init ==
    /\ env \in EnvValues
    /\ body = NoKeys
    /\ x_openrouter_key = None
    /\ authorization = None
    /\ req = NoRequest
    /\ bearer_key = None
    /\ api_key = None
    /\ headers = NoKeys
    /\ payload = NoKeys
    /\ sent = <<>>
    /\ r = NoResult
    /\ outcome = NoOutcome
    /\ pc = "idle"

\* a POST /chat arrives
Receive ==
    /\ pc = "idle"
    /\ \E q \in Requests :
        /\ body' = q.body
        /\ x_openrouter_key' = q.x_openrouter_key
        /\ authorization' = q.authorization
    /\ pc' = "validate"
    /\ UNCHANGED <<env, req, bearer_key, api_key, headers, payload, sent, r, outcome>>

\* lines 50-55: the body is validated against ChatRequest before chat runs
Validate ==
    /\ pc = "validate"
    /\ IF Valid(body)
       THEN /\ req' = ParseRequest(body)
            /\ pc' = "resolve"
            /\ UNCHANGED outcome
       ELSE /\ outcome' = RequestValidationError
            /\ pc' = "done"
            /\ UNCHANGED req
    /\ UNCHANGED <<env, body, x_openrouter_key, authorization, bearer_key, api_key,
                   headers, payload, sent, r>>

\* lines 57-75
Resolve ==
    /\ pc = "resolve"
    /\ bearer_key' = BearerKey(authorization)
    /\ api_key' = ResolveKey(req.api_key, env, x_openrouter_key, bearer_key')
    /\ IF KeyMissing(api_key')
       THEN /\ outcome' = HTTPException(400, MissingKeyDetail, 69)
            /\ pc' = "done"
       ELSE pc' = "build" /\ UNCHANGED outcome
    /\ UNCHANGED <<env, body, x_openrouter_key, authorization, req, headers,
                   payload, sent, r>>

\* lines 77-94
Build ==
    /\ pc = "build"
    /\ headers' = BuildHeaders(api_key)
    /\ payload' = BuildPayload(req)
    /\ pc' = "post"
    /\ UNCHANGED <<env, body, x_openrouter_key, authorization, req, bearer_key,
                   api_key, sent, r, outcome>>

\* Mutant of Post: a failed call is repeated once
PostRetryOnce ==
    /\ pc = "post"
    /\ sent' = Append(sent, [headers |-> headers, json |-> payload, timeout |-> 60])
    /\ \E result \in UpstreamResults : r' = result
    /\ IF r'.kind = "exception"
       THEN IF Len(sent') < 2
            THEN pc' = "post" /\ UNCHANGED outcome
            ELSE /\ outcome' = HTTPException(502, UnreachableDetail(r'.body.v), 99)
                 /\ pc' = "done"
       ELSE pc' = "respond" /\ UNCHANGED outcome
    /\ UNCHANGED <<env, body, x_openrouter_key, authorization, req, bearer_key,
                   api_key, headers, payload>>

\* lines 96-99: the one requests.post, and the except clause around it
Post ==
    /\ pc = "post"
    /\ sent' = Append(sent, [headers |-> headers, json |-> payload, timeout |-> 60])
    /\ \E result \in UpstreamResults : r' = result
    /\ IF r'.kind = "exception"
       THEN /\ outcome' = HTTPException(502, UnreachableDetail(r'.body.v), 99)
            /\ pc' = "done"
       ELSE pc' = "respond" /\ UNCHANGED outcome
    /\ UNCHANGED <<env, body, x_openrouter_key, authorization, req, bearer_key,
                   api_key, headers, payload>>

\* lines 101-116
Respond ==
    /\ pc = "respond"
    /\ outcome' = IF IsErrorStatus(r.status_code)
                  THEN HTTPException(r.status_code, ErrorData(r), 106)
                  ELSE Translate(r, req)
    /\ pc' = "done"
    /\ UNCHANGED <<env, body, x_openrouter_key, authorization, req, bearer_key,
                   api_key, headers, payload, sent, r>>

\* the answer is delivered; nothing of the request is kept
Finish ==
    /\ pc = "done"
    /\ body' = NoKeys
    /\ x_openrouter_key' = None
    /\ authorization' = None
    /\ req' = NoRequest
    /\ bearer_key' = None
    /\ api_key' = None
    /\ headers' = NoKeys
    /\ payload' = NoKeys
    /\ sent' = <<>>
    /\ r' = NoResult
    /\ outcome' = NoOutcome
    /\ pc' = "idle"
    /\ UNCHANGED env

Next ==
    \/ Receive
    \/ Validate
    \/ Resolve
    \/ Build
    \/ Post
    \/ Respond
    \/ Finish

Spec == Init /\ [][Next]_vars

-----------------------------------------------------------------------------
(* Vocabulary of the properties *)

\* the request passed validation: chat was called
Handled ==
    \/ pc \in {"resolve", "build", "post", "respond"}
    \/ pc = "done" /\ outcome.type # "RequestValidationError"

\* lines 57-68 have run
Resolved ==
    \/ pc \in {"build", "post", "respond"}
    \/ pc = "done" /\ outcome.type # "RequestValidationError"

\* lines 77-94 have run
Built == pc \in {"post", "respond"} \/ (pc = "done" /\ sent # <<>>)

\* the upstream answered, and chat has finished
Answered == pc = "done" /\ r.kind = "response"

\* an Optional[str] that holds a string of at least one character
NonEmpty(o) == \E s \in o : Len(s) > 0

\* the api_key field of the inbound body
BodyKeySource ==
    IF "api_key" \in DOMAIN body /\ body["api_key"].t = "str"
    THEN Some(body["api_key"].v)
    ELSE None

\* the four key sources, in the documented order
Sources == <<BodyKeySource, env, x_openrouter_key, bearer_key>>

\* the five documented kinds of answer
IsMissingCredential(o) ==
    o.type = "HTTPException" /\ o.status_code = 400 /\ o.detail = MissingKeyDetail

IsUpstreamUnreachable(o) ==
    /\ o.type = "HTTPException"
    /\ o.status_code = 502
    /\ r.kind = "exception"
    /\ o.detail = JStr(<<"Upstream request failed: ">> \o r.body.v)

IsUpstreamError(o) ==
    /\ o.type = "HTTPException"
    /\ r.kind = "response"
    /\ r.status_code >= 400
    /\ o.status_code = r.status_code

IsMalformedUpstreamResponse(o) ==
    /\ o.type = "HTTPException"
    /\ o.status_code = 500
    /\ o.detail = JStr(<<"Unexpected response format from OpenRouter">>)

\* b has the shape choices[0].message.content, the content a string
HasShape(b) ==
    /\ b.t = "obj"
    /\ "choices" \in DOMAIN b.v
    /\ b.v["choices"].t = "arr"
    /\ Len(b.v["choices"].v) > 0
    /\ b.v["choices"].v[1].t = "obj"
    /\ "message" \in DOMAIN b.v["choices"].v[1].v
    /\ b.v["choices"].v[1].v["message"].t = "obj"
    /\ "content" \in DOMAIN b.v["choices"].v[1].v["message"].v
    /\ b.v["choices"].v[1].v["message"].v["content"].t = "str"

ContentOf(b) == b.v["choices"].v[1].v["message"].v["content"].v

\* t is s without its leading and trailing whitespace
IsTrimOf(t, s) ==
    /\ \E i \in 0..Len(s) : \E j \in i..Len(s) :
          /\ t = SubSeq(s, i + 1, j)
          /\ \A k \in (1..i) \cup ((j + 1)..Len(s)) : s[k] \in {" ", "\t", "\n"}
    /\ t # <<>> => t[1] \notin {" ", "\t", "\n"} /\ t[Len(t)] \notin {" ", "\t", "\n"}

-----------------------------------------------------------------------------
(* The properties *)

\* C1: the key sent upstream as "Authorization: Bearer <key>" is the first
\* non-empty source in the order body, environment, custom header, Bearer
\* token; a later source is used only when every earlier one is absent or empty.
C1_KeyPrecedence ==
    Built =>
        \E i \in 1..4 :
            /\ NonEmpty(Sources[i])
            /\ \A j \in 1..(i - 1) : ~NonEmpty(Sources[j])
            /\ headers["Authorization"] = <<"B", "e", "a", "r", "e", "r", " ">> \o Val(Sources[i])
            /\ \A k \in 1..Len(sent) : sent[k].headers = headers

\* C1 witness: body, environment and custom header are all empty strings, and
\* the Bearer token went upstream
C1_Witness ==
    /\ sent # <<>>
    /\ BodyKeySource = Some(<<>>)
    /\ env = Some(<<>>)
    /\ x_openrouter_key = Some(<<>>)
    /\ sent[1].headers["Authorization"] = Bearer_ \o KeyToken

\* C2: with no non-empty key source, chat fails with MissingCredential (400)
\* and no outbound call is made.
C2_MissingCredential ==
    (Resolved /\ \A i \in 1..4 : ~NonEmpty(Sources[i])) =>
        /\ pc = "done"
        /\ IsMissingCredential(outcome)
        /\ sent = <<>>
        /\ r = NoResult

\* C2 witness: every source present but empty, answered 400
C2_Witness ==
    /\ pc = "done"
    /\ BodyKeySource = Some(<<>>)
    /\ env = Some(<<>>)
    /\ x_openrouter_key = Some(<<>>)
    /\ authorization = Some(Bearer_)
    /\ outcome.status_code = 400
    /\ sent = <<>>

C4_MalformedAsClaimed ==
    (Answered /\ r.status_code < 400 /\ ~HasShape(r.body)) =>
        IsMalformedUpstreamResponse(outcome)

\* C5: a transport error is answered with UpstreamUnreachable (502) after
\* exactly one outbound call, and no execution makes more than one call.
C5_NoRetry ==
    /\ Len(sent) <= 1
    /\ (r.kind = "exception") =>
          /\ pc = "done"
          /\ IsUpstreamUnreachable(outcome)
          /\ Len(sent) = 1

\* C5 witness: the call timed out and the caller got 502
C5_Witness ==
    /\ pc = "done"
    /\ r.kind = "exception"
    /\ r.body.v = <<"ReadTimeout">>
    /\ outcome.status_code = 502
    /\ Len(sent) = 1

\* C6 (as claimed): an upstream status < 400 whose body has
\* choices[0].message.content as a string is answered with a ChatResponse:
\* reply is the content trimmed, model is the body's top-level model when
\* present and the request's model otherwise.
C6_SuccessAsClaimed ==
    (Answered /\ r.status_code < 400 /\ HasShape(r.body)) =>
        /\ outcome.type = "ChatResponse"
        /\ IsTrimOf(outcome.detail.v["reply"].v, ContentOf(r.body))
        /\ outcome.detail.v["model"] =
              IF "model" \in DOMAIN r.body.v
              THEN r.body.v["model"]
              ELSE JStr(req.model)

\* C7: the outbound payload is {model, messages, temperature, top_p} of the
\* request, messages in order as {role, content}, shallow-merged with extra:
\* every key of extra carries extra's value, every other built-in key the
\* request's; without extra the payload is exactly the four built-in keys.
C7_PayloadMerge ==
    Built =>
        LET extra == IF "extra" \in DOMAIN body /\ body["extra"].t = "obj"
                     THEN body["extra"].v ELSE <<>>
            builtin == {"model", "messages", "temperature", "top_p"}
            want(k) ==
                CASE k = "model" -> JStr(req.model)
                  [] k = "messages" ->
                        JArr([i \in 1..Len(req.messages) |->
                                 JObj([role |-> JStr(req.messages[i].role),
                                       content |-> JStr(req.messages[i].content)])])
                  [] k = "temperature" -> req.temperature
                  [] k = "top_p" -> req.top_p
        IN /\ DOMAIN payload = builtin \cup DOMAIN extra
           /\ \A k \in DOMAIN extra : payload[k] = extra[k]
           /\ \A k \in builtin \ DOMAIN extra : payload[k] = want(k)
           /\ Len(req.messages) = Len(body["messages"].v)
           /\ \A i \in 1..Len(req.messages) :
                 /\ req.messages[i].role = body["messages"].v[i].v["role"].v
                 /\ req.messages[i].content = body["messages"].v[i].v["content"].v
           /\ \A k \in 1..Len(sent) : sent[k].json = payload

\* C7 witness: extra overrides model; two messages went out in order
C7_Witness ==
    /\ sent # <<>>
    /\ "extra" \in DOMAIN body
    /\ body["extra"] = JObj([model |-> JStr(<<"m-extra">>)])
    /\ req.model = <<"m-req">>
    /\ sent[1].json["model"] = JStr(<<"m-extra">>)
    /\ body["messages"] = JArr(<<MsgNamed, MsgUser>>)
    /\ sent[1].json["messages"].v[1].v["content"] = JStr(<<"o", "k">>)

\* C8 (as claimed): every execution of chat ends in a ChatResponse,
\* MissingCredential, UpstreamUnreachable, UpstreamError or
\* MalformedUpstreamResponse, and in nothing else.
C8_FiveOutcomesAsClaimed ==
    (pc = "done" /\ Handled) =>
        \/ outcome.type = "ChatResponse"
        \/ IsMissingCredential(outcome)
        \/ IsUpstreamUnreachable(outcome)
        \/ IsUpstreamError(outcome)
        \/ IsMalformedUpstreamResponse(outcome)

\* C9: the Authorization header gives a key only when it starts with
\* "Bearer " in any letter case; the key is what follows that first space,
\* trimmed. Any other header, or an empty token, gives no key, and with no
\* other source the request fails with MissingCredential (400).
C9_BearerToken ==
    Resolved =>
        LET s == IF authorization = None THEN <<>> ELSE Val(authorization)
            scheme == <<{"b", "B"}, {"e", "E"}, {"a", "A"}, {"r", "R"},
                        {"e", "E"}, {"r", "R"}, {" "}>>
            isBearer == Len(s) >= 7 /\ \A i \in 1..7 : s[i] \in scheme[i]
        IN /\ isBearer =>
                /\ bearer_key # None
                /\ IsTrimOf(Val(bearer_key), SubSeq(s, 8, Len(s)))
           /\ ~isBearer => bearer_key = None
           /\ (~NonEmpty(bearer_key) /\ \A i \in 1..3 : ~NonEmpty(Sources[i])) =>
                /\ pc = "done"
                /\ IsMissingCredential(outcome)

\* C9 witness: "bEARER", padding on both sides of the token, and the token
\* alone went upstream
C9_Witness ==
    /\ sent # <<>>
    /\ authorization = Some(<<"b", "E", "A", "R", "E", "R", " ", " ">> \o KeyToken \o <<"\t">>)
    /\ bearer_key = Some(KeyToken)
    /\ sent[1].headers["Authorization"] = Bearer_ \o KeyToken

\* the body's field k is present and is neither null nor a number in lo..hi
OutOfRange(k, lo, hi) ==
    /\ k \in DOMAIN body
    /\ body[k].t # "null"
    /\ ~(body[k].t = "num" /\ lo <= body[k].v /\ body[k].v <= hi)

\* the request was turned away with 422 and chat never ran
Rejected ==
    /\ pc = "done"
    /\ outcome.type = "RequestValidationError"
    /\ outcome.status_code = 422
    /\ api_key = None
    /\ bearer_key = None
    /\ sent = <<>>

====
